---------------------------- MODULE Spec2Model ----------------------------
(***************************************************************************)
(* Arbitrage scanner / executor scripts of fclmail/ARBBOT1.                *)
(*                                                                         *)
(* The repository holds many restatements of one scan loop.  The model     *)
(* runs one script per behaviour: `variant` names the script, chosen in    *)
(* Init and never changed.  Every `await` of a script is a suspension      *)
(* point and so one action; the outcome of the remote call (a value, or a  *)
(* thrown error) is chosen inside the action.                              *)
(*                                                                         *)
(*   "main"    src/scripts/arbitrage.js:513-724  (= part_001:196-424)      *)
(*   "env"     src/scripts/arbitrage.js:155-318                            *)
(*   "canExec" src/scripts/arbitrage.js:321-486                            *)
(*   "ready"   src/unnamed/part_011                                        *)
(*   "single"  src/unnamed/part_010:143-337                                *)
(*   "multi"   src/unnamed/part_010:1-139                                  *)
(*   "timer"   src/unnamed/part_000:137-219                                *)
(*   "stop"    src/unnamed/part_000:1-135                                  *)
(*   "stop3"   src/unnamed/part_000:221-367                                *)
(*   "p005"    src/unnamed/part_005                                        *)
(*   "direct"  src/unnamed/part_006:1-121                                  *)
(*   "p007"    src/unnamed/part_007                                        *)
(*   "p008"    src/unnamed/part_008                                        *)
(*   "onBlock" src/scripts/arbitrage.js:1-151                              *)
(*   "p003"    src/unnamed/part_003                                        *)
(*   "p004"    src/unnamed/part_004                                        *)
(***************************************************************************)
EXTENDS Integers, Sequences, FiniteSets, TLC

VARIABLES
    variant,     \* the script that is running
    cfg,         \* the environment: amount and threshold strings, decimals
    amountIn,    \* amountInUSDC: trade amount in quote-asset base units
    minProfit,   \* MIN_PROFIT_UNITS: threshold in quote-asset base units
    shown,       \* the trade amount as the startup log prints it
    inv,         \* invocations of the scan code: program counter and locals
    pending,     \* settlement transactions submitted and not yet mined
    nonce,       \* transactions the wallet has sent so far
    last,        \* the call made by the latest step, and who caught its error
    signal       \* an interrupt (SIGINT) has been delivered to the process

vars == <<variant, cfg, amountIn, minProfit, shown, inv, pending, nonce, last, signal>>

-----------------------------------------------------------------------------
(* Bounds of the model *)

MaxCycles == 2      \* iterations of a while(true) scan loop that are explored
MaxInv == 2         \* concurrent invocations of main() under setInterval
MaxAmount == 3      \* largest amount a router quote returns
MaxAmountIn == 1    \* largest configured trade amount
MaxMinProfit == 1   \* largest configured profit threshold
MaxGas == 1         \* largest gas estimate, in units of GasUnit
NumTokens == 1      \* tokens of a token list that are explored
MaxLen == 4         \* longest configuration string that is converted
MaxDecimals == 2    \* largest precision a string is converted at

(* Program constants *)

GasUnit == 5
MarginMain == 120
MarginSingle == 110
FixedGasLimit == 1000000
Percent == 100
SciThreshold == 6   \* Number.prototype.toString: exponent form below 1e-6

-----------------------------------------------------------------------------
Variants ==
    {"main", "env", "canExec", "ready", "single", "multi", "timer",
     "stop", "stop3", "p005", "direct", "p007", "p008", "onBlock",
     "p003", "p004"}

Invs == 1..MaxInv

NoTx == <<0, 0>>

Routers == {"A", "B"}
USDC == "USDC"
TOKEN == "TOKEN"

(* pathBuy / pathSell *)
pathBuy == <<USDC, TOKEN>>
pathSell == <<TOKEN, USDC>>
pathRound == <<USDC, TOKEN, USDC>>

(***************************************************************************)
(* The work of one scan cycle: the (buy router, sell router) pairs a cycle *)
(* evaluates, in program order.                                            *)
(***************************************************************************)
BothDirections == << <<"A", "B">>, <<"B", "A">> >>
OneDirection == << <<"A", "B">> >>

RECURSIVE Repeat(_, _)
Repeat(s, n) == IF n = 0 THEN << >> ELSE s \o Repeat(s, n - 1)

(* The router lists of the one-pass scripts: BUY_ROUTERS and SELL_ROUTERS *)
BuyRouters == <<"A", "B">>
SellRouters == <<"A", "B">>

(* for (const buy of BUY_ROUTERS) for (const sell of SELL_ROUTERS): every    *)
(* pair, in the order of the two loops                                       *)
AllPairs(buys, sells) ==
    [n \in 1..(Len(buys) * Len(sells)) |->
       <<buys[((n - 1) \div Len(sells)) + 1], sells[((n - 1) % Len(sells)) + 1]>>]

(* if (buyRouter.toLowerCase() === sellRouter.toLowerCase()) continue *)
SkipSame(pairs) == SelectSeq(pairs, LAMBDA p : p[1] # p[2])

Items(v) ==
    CASE v \in {"main", "env", "canExec", "ready", "p007", "p008", "onBlock"} -> BothDirections
      [] v \in {"single", "direct"} -> OneDirection
      [] v \in {"multi", "stop"} -> Repeat(BothDirections, NumTokens)
      [] v \in {"timer", "stop3", "p005"} -> Repeat(OneDirection, NumTokens)
      [] v = "p003" -> SkipSame(AllPairs(BuyRouters, SellRouters))
      [] v = "p004" -> AllPairs(BuyRouters, SellRouters)

-----------------------------------------------------------------------------
(* Decimal strings and base units.  A string is a sequence of characters.  *)

Digits == <<"0", "1", "2", "3", "4", "5", "6", "7", "8", "9">>

IsDigit(c) == \E d \in 1..Len(Digits) : Digits[d] = c

(* The value of a digit character (0 for any other character, which the *)
(* conversions reject before they read a value)                          *)
DigitValue(c) == IF IsDigit(c) THEN (CHOOSE d \in 1..Len(Digits) : Digits[d] = c) - 1 ELSE 0

AllDigits(s) == \A k \in 1..Len(s) : IsDigit(s[k])

AllZeros(s) == \A k \in 1..Len(s) : s[k] = "0"

(* BigInt(s) of a string of digits; BigInt("") is 0n *)
RECURSIVE DigitsValue(_)
DigitsValue(s) ==
    IF Len(s) = 0 THEN 0
    ELSE 10 * DigitsValue(SubSeq(s, 1, Len(s) - 1)) + DigitValue(s[Len(s)])

(* n.toString() of a non-negative integer *)
RECURSIVE NatToString(_)
NatToString(n) ==
    IF n < 10 THEN <<Digits[n + 1]>>
    ELSE NatToString(n \div 10) \o <<Digits[(n % 10) + 1]>>

RECURSIVE Zeros(_)
Zeros(n) == IF n <= 0 THEN << >> ELSE <<"0">> \o Zeros(n - 1)

(* str.substring(from) and str.substring(0, to), zero-based as in the code *)
substringFrom(s, from) == SubSeq(s, from + 1, Len(s))
substringTo(s, to) == SubSeq(s, 1, IF to < Len(s) THEN to ELSE Len(s))

Dots(s) == {k \in 1..Len(s) : s[k] = "."}

(* inputStr.split("."): parts[0] and parts[1] when there are two parts *)
Dot(s) == CHOOSE k \in Dots(s) : TRUE
WholePart(s) == SubSeq(s, 1, Dot(s) - 1)
FracPart(s) == SubSeq(s, Dot(s) + 1, Len(s))

(* clampDecimalString(inputStr, decimals) *)
clampDecimalString(inputStr, decimals) ==
    IF Cardinality(Dots(inputStr)) = 1 /\ Len(FracPart(inputStr)) > decimals
    THEN WholePart(inputStr) \o <<".">> \o substringTo(FracPart(inputStr), decimals)
    ELSE inputStr

(* FixedNumber.fromString matches an optional "-", digits, an optional ".",  *)
(* digits: the sign, the whole and the decimal group                         *)
Negative(s) == Len(s) > 0 /\ s[1] = "-"
Unsigned(s) == IF Negative(s) THEN substringFrom(s, 1) ELSE s
MatchWhole(s) == IF Dots(Unsigned(s)) = {} THEN Unsigned(s) ELSE WholePart(Unsigned(s))
MatchDecimal(s) == IF Dots(Unsigned(s)) = {} THEN << >> ELSE FracPart(Unsigned(s))

(* "invalid FixedNumber string value" *)
InvalidString(s) ==
    \/ Cardinality(Dots(Unsigned(s))) > 1
    \/ ~AllDigits(MatchWhole(s))
    \/ ~AllDigits(MatchDecimal(s))
    \/ Len(MatchWhole(s)) + Len(MatchDecimal(s)) = 0

(* "too many decimals for format" *)
TooManyDecimals(s, decimals) == ~AllZeros(substringFrom(MatchDecimal(s), decimals))

(* parseUnits(value, decimals) throws *)
ParseThrows(s, decimals) == InvalidString(s) \/ TooManyDecimals(s, decimals)

(* parseUnits(value, decimals): BigInt(sign + whole + decimal), the decimal  *)
(* padded with zeros to `decimals` digits                                    *)
parseUnits(s, decimals) ==
    (IF Negative(s) THEN -1 ELSE 1)
    * DigitsValue(MatchWhole(s)
                  \o substringTo(MatchDecimal(s) \o Zeros(decimals - Len(MatchDecimal(s))),
                          decimals))

(* Trim the whole component (leaving at least one 0) *)
RECURSIVE TrimWhole(_)
TrimWhole(s) ==
    IF Len(s) >= 2 /\ s[1] = "0" /\ s[2] # "." THEN TrimWhole(substringFrom(s, 1)) ELSE s

(* Trim the decimal component (leaving at least one 0) *)
RECURSIVE TrimDecimal(_)
TrimDecimal(s) ==
    IF Len(s) >= 2 /\ s[Len(s)] = "0" /\ s[Len(s) - 1] # "."
    THEN TrimDecimal(substringTo(s, Len(s) - 1)) ELSE s

(* formatUnits(value, decimals) *)
formatUnits(value, decimals) ==
    LET abs == IF value < 0 THEN -value ELSE value
        str == NatToString(abs)
        padded == Zeros(decimals + 1 - Len(str)) \o str
        index == Len(padded) - decimals
        pointed == substringTo(padded, index) \o <<".">> \o substringFrom(padded, index)
    IN  (IF value < 0 THEN <<"-">> ELSE << >>)
        \o (IF decimals = 0 THEN str ELSE TrimDecimal(TrimWhole(pointed)))

(* Number(s).toString() for a decimal string s: "NaN" when s is not numeric, *)
(* else the shortest decimal form, in exponent notation below 1e-6           *)
RECURSIVE LeadingZeros(_)
LeadingZeros(s) ==
    IF Len(s) > 0 /\ s[1] = "0" THEN 1 + LeadingZeros(substringFrom(s, 1)) ELSE 0

RECURSIVE TrailingZeros(_)
TrailingZeros(s) ==
    IF Len(s) > 0 /\ s[Len(s)] = "0" THEN 1 + TrailingZeros(substringTo(s, Len(s) - 1)) ELSE 0

NumberToString(s) ==
    LET whole == substringFrom(MatchWhole(s), LeadingZeros(MatchWhole(s)))
        frac == substringTo(MatchDecimal(s), Len(MatchDecimal(s)) - TrailingZeros(MatchDecimal(s)))
        sig == substringFrom(frac, LeadingZeros(frac))
        sign == IF Negative(s) /\ Len(whole) + Len(frac) > 0 THEN <<"-">> ELSE << >>
    IN  IF InvalidString(s) THEN <<"N", "a", "N">>
        ELSE IF Len(whole) = 0 /\ LeadingZeros(frac) >= SciThreshold
        THEN sign \o <<sig[1]>>
             \o (IF Len(sig) > 1 THEN <<".">> \o substringFrom(sig, 1) ELSE << >>)
             \o <<"e", "-">> \o NatToString(LeadingZeros(frac) + 1)
        ELSE sign \o (IF Len(whole) = 0 THEN <<"0">> ELSE whole)
             \o (IF Len(frac) = 0 THEN << >> ELSE <<".">> \o frac)

(* The value of a decimal string, in units of 10^-scale *)
ValueAtScale(s, scale) ==
    (IF Negative(s) THEN -1 ELSE 1)
    * DigitsValue(MatchWhole(s) \o MatchDecimal(s) \o Zeros(scale - Len(MatchDecimal(s))))

RECURSIVE Pow10(_)
Pow10(n) == IF n <= 0 THEN 1 ELSE 10 * Pow10(n - 1)

(* Two decimal strings denote the same number *)
NumericallyEqual(s, t) ==
    LET scale == IF Len(MatchDecimal(s)) > Len(MatchDecimal(t))
                 THEN Len(MatchDecimal(s)) ELSE Len(MatchDecimal(t))
    IN  ValueAtScale(s, scale) = ValueAtScale(t, scale)

-----------------------------------------------------------------------------
(* What each script does at each step of an item *)

(* How a script reads a getAmountsOut answer:                              *)
(*  "safe" safeGetAmountsOut: a throw, a short array or a zero -> null     *)
(*  "lax"  safeGetAmountsOut of part_007: a throw or a short array -> null *)
(*  "raw"  the bare call: a throw or a missing element ends the item       *)
(*  "zero" getAmountOutRaw / getAmountOut: a throw -> ethers.BigInt(0)     *)
(*  "null" getAmountOut of the third loop: a throw -> null, checked late   *)
QuoteStyle(v) ==
    CASE v \in {"main", "ready", "p008"} -> "safe"
      [] v = "p007" -> "lax"
      [] v \in {"env", "canExec", "single", "multi", "onBlock"} -> "raw"
      [] v \in {"stop", "p005"} -> "zero"
      [] v = "stop3" -> "null"
      [] OTHER -> "none"

HasQuotes(v) == QuoteStyle(v) # "none"

BuyPath(v) == IF v = "stop" THEN pathRound ELSE pathBuy

SellPath(v) ==
    CASE v = "stop" -> pathRound
      [] v \in {"stop3", "p005"} -> pathBuy
      [] OTHER -> pathSell

(* The amount handed to the sell-leg quote *)
SellInput(v, r) == IF v = "stop3" THEN amountIn ELSE r.buyOut

(* Number(...) arithmetic: the scripts that normalise amounts to floats *)
UsesFloat(v) == v \in {"stop", "stop3", "p005"}

(* The profit a script computes from its two quotes *)
ProfitOf(v, r, sellOut) ==
    IF v = "stop3" THEN sellOut - r.buyOut ELSE sellOut - amountIn

(* A simulation that calls the view function simulateArb in every script *)
SimMethodView(v) == "simulateArb"

(* The contract method the simulation calls: callStatic.executeArbitrage,   *)
(* or the view function simulateArb                                          *)
SimMethod(v) == IF v = "p008" THEN "simulateArb" ELSE "executeArbitrage"

HasSimulation(v) == v \in {"main", "canExec", "ready", "timer", "p007", "p008", "onBlock"}

(* A script family in which every threshold test is >= *)
CompareAlwaysGe(v) == "ge"

(* The threshold test guarding execution: "ge" is >=, "gt" is > *)
Compare(v) ==
    CASE v \in {"main", "canExec", "ready", "stop", "stop3", "p005", "p007", "p008",
                "onBlock"} -> "ge"
      [] v \in {"env", "single", "multi"} -> "gt"
      [] OTHER -> "none"

(* value >= / > threshold, value = profit + rnd * (a rounding error) *)
ClearsThreshold(v, profit, rnd) ==
    CASE Compare(v) = "ge" -> profit > minProfit \/ (profit = minProfit /\ rnd >= 0)
      [] Compare(v) = "gt" -> profit > minProfit
      [] OTHER -> TRUE

(* Every script sends executeArbitrage once the threshold test passes *)
ExecutesAlways(v) == TRUE

(* Scripts that send executeArbitrage as a transaction *)
Executes(v) == v \notin {"canExec", "ready", "onBlock"}

HasEstimate(v) == v \in {"main", "env", "single", "p007", "p008"}

Margin(v) == IF v = "single" THEN MarginSingle ELSE MarginMain

(* gasLimit = gasEst * 120n / 100n *)
GasLimitOf(v, gasEst) == (gasEst * Margin(v)) \div Percent

(* A script that never awaits tx.wait() after a submission *)
WaitsNever(v) == FALSE

(* Scripts that await tx.wait() after the submission *)
Waits(v) == v # "multi"

(* No script loops: every one runs its cycle once and returns *)
RunsOnce(v) == FALSE

(* Scripts whose scan is a while loop; "timer" runs main() once per tick,   *)
(* "onBlock" runs its handler once per block event, "p003" and "p004" make   *)
(* one pass over their router pairs                                          *)
Loops(v) == v \notin {"timer", "onBlock", "p003", "p004"}

(* Scripts that read the block height at the head of a cycle *)
ReadsBlock(v) == v \in {"main", "env", "canExec", "ready", "single", "p007", "p008"}

(* Scripts whose block-height read is inside the try of the loop body *)
BlockReadGuarded(v) == v \notin {"env", "p007"}

(* No script installs a SIGINT handler: an interrupt ends any of them *)
HasNoStopFlag(v) == FALSE

(* Scripts whose SIGINT handler sets a stop flag that the loop head reads;   *)
(* in every other script the interrupt ends the process where it stands      *)
HasStopFlag(v) == v \in {"stop", "stop3", "p005"}

(* A loop whose condition never finds the flag set: while (true) *)
StoppingNever(v, sig) == FALSE

(* while (!STOP): the loop condition finds the flag set *)
Stopping(v, sig) == HasStopFlag(v) /\ sig

(* Scripts that look the token's decimals up at the head of every item,      *)
(* outside the try of the item                                               *)
LooksUpEachItem(v) == v = "stop3"

-----------------------------------------------------------------------------
(* Startup: the configuration strings become base units *)

(* "clamp" clampDecimalString then parseUnits; "number" the threshold goes   *)
(* through Number(...).toString(); "plain" parseUnits of the string as given *)
StartupStyle(v) ==
    CASE v \in {"main", "p008"} -> "clamp"
      [] v = "env" -> "number"
      [] OTHER -> "plain"

(* Scripts that look the asset's decimals up, on chain or in a token table *)
HasLookup(v) == v \in {"main", "env", "canExec", "ready", "p007", "p008", "onBlock"}

(* "0.000001" and (0.0000001).toString() *)
DefaultMinProfit(v) ==
    IF v = "env" THEN <<"1", "e", "-", "7">>
    ELSE <<"0", ".", "0", "0", "0", "0", "0", "1">>

(* The string handed to parseUnits for the trade amount *)
AmountString(v, c) ==
    IF StartupStyle(v) = "clamp" THEN clampDecimalString(c.amount, c.decimals)
    ELSE c.amount

(* The string handed to parseUnits for the profit threshold *)
ThresholdString(v, c) ==
    LET given == c.minProfit # << >>
        str == IF given THEN c.minProfit ELSE DefaultMinProfit(v)
    IN  CASE StartupStyle(v) = "clamp" -> clampDecimalString(str, c.decimals)
          [] StartupStyle(v) = "number" /\ given -> NumberToString(str)
          [] OTHER -> str

(* A startup in which no conversion ever throws *)
StartupNeverThrows(v, c) == FALSE

(* A required variable is missing, or a parseUnits of the startup throws *)
StartupThrows(v, c) ==
    \/ c.amount = << >>
    \/ ParseThrows(AmountString(v, c), c.decimals)
    \/ ParseThrows(ThresholdString(v, c), c.decimals)

(* A startup log that prints the base units of the amount in every script *)
ShownBaseUnits(v, c, units) ==
    IF units < 0 THEN <<"-">> \o NatToString(-units) ELSE NatToString(units)

(* The trade amount in the startup log *)
ShownAmount(v, c, units) ==
    CASE v \in {"main", "p008"} -> formatUnits(units, c.decimals)
      [] v = "env" -> (IF units < 0 THEN <<"-">> \o NatToString(-units)
                       ELSE NatToString(units))
      [] OTHER -> c.amount

-----------------------------------------------------------------------------
(* State of one invocation *)

(* A remote call; `caught` names the handler that took the error it raised: *)
(* "quote" the catch inside the quote wrapper, "caller" a catch of the code  *)
(* that called it, "fatal" the handler that ends the process                 *)
Call(op, by, venue, sellVenue, amt, path, gas) ==
    [op |-> op, by |-> by, venue |-> venue, sellVenue |-> sellVenue,
     amt |-> amt, path |-> path, gas |-> gas, caught |-> "none"]

NoCall == Call("none", 0, "-", "-", 0, << >>, 0)

(* The method and the arguments of a call to the settlement contract *)
Args(method, buyR, sellR, amt) == <<method, buyR, sellR, TOKEN, amt>>

NoArgs == Args("-", "-", "-", 0)

(* The locals of one item (one direction evaluation), before any call *)
FreshItem(pc, iter, k) ==
    [pc |-> pc, iter |-> iter, k |-> k,
     buy |-> "none", buyOut |-> 0,
     sell |-> "none", sellOut |-> 0,
     hasProfit |-> FALSE, profit |-> 0, rnd |-> 0,
     sim |-> "none", simCall |-> NoArgs,
     est |-> "none", gasEst |-> 0, gasLimit |-> 0,
     sub |-> "none", subCall |-> NoArgs, tx |-> NoTx]

Unused == FreshItem("unused", 0, 0)

(* The first await of an item *)
ItemEntry(v) ==
    CASE v = "multi" -> "pair"
      [] v = "timer" -> "sim"
      [] v \in {"direct", "p003", "p004"} -> "submit"
      [] LooksUpEachItem(v) -> "dec"
      [] OTHER -> "buy"

(* The first await of a cycle *)
CycleEntry(v) == IF ReadsBlock(v) THEN "block" ELSE ItemEntry(v)

BuyRouter(v, r) == Items(v)[r.k][1]
SellRouter(v, r) == Items(v)[r.k][2]

(* The end of a cycle: sleep(SCAN_MS) in a loop, the return of main() else *)
EndCycle(v, r) ==
    [r EXCEPT !.pc = IF Loops(v) THEN "sleep" ELSE "done"]

(* An item that ends by trying its submission again *)
EndItemRetry(v, r) == [r EXCEPT !.pc = "submit"]

(* The end of an item: the next pair of the cycle, or the end of the cycle.  *)
(* The single-direction loop sleeps and continues on a quote failure.        *)
EndItem(v, r) ==
    IF r.k < Len(Items(v))
    THEN FreshItem(ItemEntry(v), r.iter, r.k + 1)
    ELSE EndCycle(v, r)

(* The threshold test and what follows it, once the profit is known (and the *)
(* simulation, where there is one, has returned)                             *)
Decide(v, r) ==
    IF Executes(v) /\ ClearsThreshold(v, r.profit, r.rnd)
    THEN [r EXCEPT !.pc = IF HasEstimate(v) THEN "est" ELSE "submit"]
    ELSE EndItem(v, r)

(* A script that takes the threshold test before any simulation *)
AfterProfitNoSim(v, r) == Decide(v, r)

(* After the profit is computed: the simulation, or the threshold test *)
AfterProfit(v, r) ==
    IF HasSimulation(v) THEN [r EXCEPT !.pc = "sim"] ELSE Decide(v, r)

TypeOK ==
    /\ variant \in Variants
    /\ DOMAIN cfg = {"amount", "minProfit", "decimals"}
    /\ cfg.decimals \in Nat
    /\ amountIn \in Int
    /\ minProfit \in Int
    /\ DOMAIN inv = Invs
    /\ \A i \in Invs :
         /\ inv[i].pc \in {"unused", "init", "block", "pair", "dec", "buy", "sell", "sim",
                           "est", "submit", "wait", "withdraw", "sleep", "done", "exit",
                           "stopped", "killed"}
         /\ inv[i].buy \in {"none", "ok", "fail", "undef"}
         /\ inv[i].sell \in {"none", "ok", "fail"}
         /\ inv[i].sim \in {"none", "ok", "fail"}
         /\ inv[i].est \in {"none", "ok", "fail"}
         /\ inv[i].sub \in {"none", "ok", "fail", "nofunds"}
    /\ nonce \in 0..(MaxInv * MaxCycles * 2 * NumTokens)
    /\ signal \in BOOLEAN
    /\ pending \subseteq (Invs \X (1..nonce))

(* The model's quote asset has one fractional digit: a base unit is 0.1 *)
ScanDecimals == 1

Tenths(d) == <<"0", ".", Digits[d + 1]>>

(* Scripts whose startup is followed on ill-formed strings too *)
StartupVariants == {"main", "env", "p007"}

ScanAmounts == {Tenths(d) : d \in 0..MaxAmountIn}

(* Thresholds in tenths; below one base unit ("0.01"), unset and unparseable *)
ScanThresholds(v) ==
    {Tenths(d) : d \in 1..MaxMinProfit}
    \cup (IF v \in StartupVariants
          THEN {<<"0", ".", "0", "1">>, << >>, <<"-">>}
          ELSE {})

(* The process before main() has run *)
Loaded ==
    /\ amountIn = 0
    /\ minProfit = 0
    /\ shown = << >>
    /\ inv = [i \in Invs |-> IF i = 1 THEN FreshItem("init", 0, 0) ELSE Unused]
    /\ pending = {}
    /\ nonce = 0
    /\ last = NoCall
    /\ signal = FALSE

(* The amount and the threshold a script hard-codes (TRADE_AMOUNT_USDC,     *)
(* MIN_PROFIT_USDC of the block scanner, AMOUNT_IN of part_004), on the      *)
(* model's scale                                                             *)
HardCoded == [amount |-> Tenths(1), minProfit |-> Tenths(1), decimals |-> ScanDecimals]

(* Scripts whose amount and threshold are constants of the source file *)
HasHardCodedConfig(v) == v \in {"onBlock", "p004"}

(* The scan scripts, on the configurations in tenths *)
Init ==
    /\ variant \in Variants
    /\ IF HasHardCodedConfig(variant)
       THEN cfg = HardCoded
       ELSE cfg \in [amount : ScanAmounts, minProfit : ScanThresholds(variant),
                     decimals : {ScanDecimals}]
    /\ Loaded

-----------------------------------------------------------------------------
(* Answers of the remote ledger *)

(* getAmountsOut: a thrown error, an array shorter than the path whose last  *)
(* element is `out`, or the amounts with final element `out`                 *)
QuoteAnswers ==
    [kind : {"throw", "short", "ok"}, out : 0..MaxAmount]

GasEstimates == {g * GasUnit : g \in 1..MaxGas}

config == <<variant, cfg, amountIn, minProfit, shown>>

-----------------------------------------------------------------------------
(* Steps *)

(* A loop that runs the startup again at its head: a reload every cycle *)
LoopHeadReload(v, sig, iter) == FreshItem("init", iter, 0)

(* The head of the scan loop: the next cycle, or, with the stop flag set,    *)
(* the line after the loop (the terminal log line)                           *)
LoopHead(v, sig, iter) ==
    IF Stopping(v, sig) THEN FreshItem("stopped", iter, 0)
    ELSE FreshItem(CycleEntry(v), iter + 1, 1)

(* await initDecimals(): the decimals lookup, then the conversions; an error *)
(* goes to the fatal handler, which ends the process                         *)
InitDecimals(i) ==
    /\ inv[i].pc = "init"
    /\ \E found \in (IF HasLookup(variant) THEN BOOLEAN ELSE {TRUE}) :
         IF found /\ ~StartupThrows(variant, cfg)
         THEN /\ amountIn' = parseUnits(AmountString(variant, cfg), cfg.decimals)
              /\ minProfit' = parseUnits(ThresholdString(variant, cfg), cfg.decimals)
              /\ shown' = ShownAmount(variant, cfg, amountIn')
              /\ inv' = [inv EXCEPT ![i] = LoopHead(variant, signal, inv[i].iter)]
              /\ last' = Call("decimals", i, "-", "-", 0, << >>, 0)
         ELSE /\ inv' = [inv EXCEPT ![i] = [inv[i] EXCEPT !.pc = "exit"]]
              /\ last' = [Call(IF found THEN "parseUnits" ELSE "decimals",
                               i, "-", "-", 0, << >>, 0) EXCEPT
                            !.caught = "fatal"]
              /\ UNCHANGED <<amountIn, minProfit, shown>>
    /\ UNCHANGED <<variant, cfg, pending, nonce, signal>>

(* const block = await provider.getBlockNumber() *)
GetBlockNumber(i) ==
    /\ inv[i].pc = "block"
    /\ \E ok \in BOOLEAN :
         /\ inv' = [inv EXCEPT ![i] =
                      IF ok THEN [inv[i] EXCEPT !.pc = ItemEntry(variant)]
                      ELSE IF BlockReadGuarded(variant) THEN EndCycle(variant, inv[i])
                      ELSE [inv[i] EXCEPT !.pc = "exit"]]
         /\ last' = [Call("block", i, "-", "-", 0, << >>, 0) EXCEPT
                       !.caught = IF ok THEN "none"
                                  ELSE IF BlockReadGuarded(variant) THEN "caller"
                                  ELSE "fatal"]
    /\ UNCHANGED <<config, pending, nonce, signal>>

(* const tokenDecimals = meta.decimals || (await getTokenDecimals(meta.address)) *)
(* before the try of the item: an error rejects arbitrageLoop                *)
GetTokenDecimals(i) ==
    /\ inv[i].pc = "dec"
    /\ \E ok \in BOOLEAN :
         /\ inv' = [inv EXCEPT ![i] = [inv[i] EXCEPT !.pc = IF ok THEN "buy" ELSE "exit"]]
         /\ last' = [Call("decimals", i, "-", "-", 0, << >>, 0) EXCEPT
                       !.caught = IF ok THEN "none" ELSE "fatal"]
    /\ UNCHANGED <<config, pending, nonce, signal>>

(* const pairAddr = await factoryContracts[buyName].getPair(USDC, token) *)
GetPair(i) ==
    /\ inv[i].pc = "pair"
    /\ last' = Call("getPair", i, BuyRouter(variant, inv[i]), "-", 0, pathBuy, 0)
    /\ \E answer \in {"pair", "zero", "throw"} :
         inv' = [inv EXCEPT ![i] =
                   IF answer = "pair" THEN [inv[i] EXCEPT !.pc = "buy"]
                   ELSE EndItem(variant, inv[i])]
    /\ UNCHANGED <<config, pending, nonce, signal>>

(* The handler that takes the error of a getAmountsOut call that throws:    *)
(* the wrapper's own catch, or, for a bare call and for a wrapper whose      *)
(* catch throws again, a catch of the calling code                          *)
QuoteCaught(v, a, rethrow) ==
    CASE a.kind # "throw" -> "none"
      [] QuoteStyle(v) \in {"safe", "lax", "null"} -> "quote"
      [] QuoteStyle(v) = "zero" -> IF rethrow THEN "caller" ELSE "quote"
      [] OTHER -> "caller"

(* What the buy-leg quote leaves in the locals, by the script's wrapper *)
BuyResult(v, r, a, rethrow) ==
    CASE QuoteStyle(v) = "safe" ->
           IF a.kind = "ok" /\ a.out # 0
           THEN [r EXCEPT !.buy = "ok", !.buyOut = a.out, !.pc = "sell"]
           ELSE EndItem(v, [r EXCEPT !.buy = "fail"])
      [] QuoteStyle(v) = "lax" ->
           IF a.kind = "ok"
           THEN [r EXCEPT !.buy = "ok", !.buyOut = a.out, !.pc = "sell"]
           ELSE EndItem(v, [r EXCEPT !.buy = "fail"])
      [] QuoteStyle(v) = "raw" ->
           IF a.kind = "ok" \/ (a.kind = "short" /\ v = "single")
           THEN [r EXCEPT !.buy = "ok", !.buyOut = a.out, !.pc = "sell"]
           ELSE EndItem(v, [r EXCEPT !.buy = "fail"])
      [] QuoteStyle(v) = "zero" ->
           IF a.kind = "ok" \/ (a.kind = "short" /\ v = "stop")
           THEN [r EXCEPT !.buy = "ok", !.buyOut = a.out, !.pc = "sell"]
           ELSE IF a.kind = "short"
           THEN [r EXCEPT !.buy = "undef", !.buyOut = 0, !.pc = "sell"]
           ELSE IF rethrow
           THEN EndItem(v, [r EXCEPT !.buy = "fail"])
           ELSE [r EXCEPT !.buy = "fail", !.buyOut = 0, !.pc = "sell"]
      [] QuoteStyle(v) = "null" ->
           IF a.kind = "ok"
           THEN [r EXCEPT !.buy = "ok", !.buyOut = a.out, !.pc = "sell"]
           ELSE [r EXCEPT !.buy = "fail", !.buyOut = 0, !.pc = "sell"]

(* const buyOut = await safeGetAmountsOut(buyR, amountInUSDC, pathBuy) *)
BuyQuote(i) ==
    /\ inv[i].pc = "buy"
    /\ \E a \in QuoteAnswers, rethrow \in BOOLEAN :
         /\ inv' = [inv EXCEPT ![i] = BuyResult(variant, inv[i], a, rethrow)]
         /\ last' = [Call("buyQuote", i, BuyRouter(variant, inv[i]), "-",
                          amountIn, BuyPath(variant), 0) EXCEPT
                       !.caught = QuoteCaught(variant, a, rethrow)]
    /\ UNCHANGED <<config, pending, nonce, signal>>

(* The locals once both quotes are in: the profit, then the simulation or   *)
(* the threshold test                                                       *)
WithProfit(v, r, status, sellOut, rnd) ==
    AfterProfit(v, [r EXCEPT !.sell = status, !.sellOut = sellOut,
                             !.hasProfit = TRUE,
                             !.profit = ProfitOf(v, r, sellOut),
                             !.rnd = rnd])

(* What the sell-leg quote leaves in the locals, by the script's wrapper *)
SellResult(v, r, a, rethrow, rnd) ==
    CASE QuoteStyle(v) = "safe" ->
           IF a.kind = "ok" /\ a.out # 0
           THEN WithProfit(v, r, "ok", a.out, rnd)
           ELSE EndItem(v, [r EXCEPT !.sell = "fail"])
      [] QuoteStyle(v) = "lax" ->
           IF a.kind = "ok"
           THEN WithProfit(v, r, "ok", a.out, rnd)
           ELSE EndItem(v, [r EXCEPT !.sell = "fail"])
      [] QuoteStyle(v) = "raw" ->
           IF a.kind = "ok" \/ (a.kind = "short" /\ v = "single")
           THEN WithProfit(v, r, "ok", a.out, rnd)
           ELSE EndItem(v, [r EXCEPT !.sell = "fail"])
      [] QuoteStyle(v) = "zero" ->
           IF a.kind = "ok" \/ (a.kind = "short" /\ v = "stop")
           THEN WithProfit(v, r, "ok", a.out, rnd)
           ELSE IF a.kind = "short" \/ rethrow
           THEN EndItem(v, [r EXCEPT !.sell = "fail"])
           ELSE WithProfit(v, r, "fail", 0, rnd)
      [] QuoteStyle(v) = "null" ->
           IF a.kind = "ok" /\ a.out # 0 /\ r.buy = "ok" /\ r.buyOut # 0
           THEN WithProfit(v, r, "ok", a.out, rnd)
           ELSE EndItem(v, [r EXCEPT !.sell = IF a.kind = "ok" THEN "ok" ELSE "fail",
                                     !.sellOut = IF a.kind = "ok" THEN a.out ELSE 0])

(* const sellOut = await safeGetAmountsOut(sellR, buyTokenOut, pathSell) *)
SellQuote(i) ==
    /\ inv[i].pc = "sell"
    /\ \E a \in QuoteAnswers, rethrow \in BOOLEAN,
          rnd \in (IF UsesFloat(variant) THEN {-1, 0, 1} ELSE {0}) :
         \* an undefined amount is refused before the request is sent
         /\ inv[i].buy = "undef" => a.kind = "throw"
         /\ inv' = [inv EXCEPT ![i] = SellResult(variant, inv[i], a, rethrow, rnd)]
         /\ last' = [Call("sellQuote", i, SellRouter(variant, inv[i]), "-",
                          SellInput(variant, inv[i]), SellPath(variant), 0) EXCEPT
                       !.caught = QuoteCaught(variant, a, rethrow)]
    /\ UNCHANGED <<config, pending, nonce, signal>>

(* Whether a failed simulation ends the item (the catch around the whole     *)
(* item), or is only logged                                                  *)
SimulationGates(v) == v = "timer"

(* await arbContract.callStatic.executeArbitrage(buyR, sellR, token, amountIn) *)
Simulate(i) ==
    /\ inv[i].pc = "sim"
    /\ \E ok \in BOOLEAN :
         LET r == [inv[i] EXCEPT
                     !.sim = IF ok THEN "ok" ELSE "fail",
                     !.simCall = Args(SimMethod(variant), BuyRouter(variant, inv[i]),
                                      SellRouter(variant, inv[i]), amountIn)]
         IN  /\ inv' = [inv EXCEPT ![i] =
                          IF ~ok /\ SimulationGates(variant)
                          THEN EndItem(variant, r) ELSE Decide(variant, r)]
             /\ last' = [Call("simulate", i, BuyRouter(variant, inv[i]),
                              SellRouter(variant, inv[i]), amountIn, << >>, 0) EXCEPT
                           !.caught = IF ok THEN "none" ELSE "caller"]
    /\ UNCHANGED <<config, pending, nonce, signal>>

(* const gasEst = await arbContract.estimateGas.executeArbitrage(...) *)
EstimateGas(i) ==
    /\ inv[i].pc = "est"
    /\ last' = Call("estimate", i, BuyRouter(variant, inv[i]),
                    SellRouter(variant, inv[i]), amountIn, << >>, 0)
    /\ \/ \E gasEst \in GasEstimates :
            inv' = [inv EXCEPT ![i] =
                      [inv[i] EXCEPT !.est = "ok", !.gasEst = gasEst,
                                !.gasLimit = GasLimitOf(variant, gasEst),
                                !.pc = "submit"]]
       \/ inv' = [inv EXCEPT ![i] = EndItem(variant, [inv[i] EXCEPT !.est = "fail"])]
    /\ UNCHANGED <<config, pending, nonce, signal>>

(* The gasLimit override of the submission; 0 when the script gives none *)
GasLimitSent(v, r) ==
    CASE HasEstimate(v) -> r.gasLimit
      [] UsesFloat(v) -> FixedGasLimit
      [] OTHER -> 0

(* The transaction invocation i sends next: the wallet numbers them *)
TxOf(i) == <<i, nonce + 1>>

(* Where a script goes once the transaction is sent *)
AfterSubmit(v, r) ==
    IF Waits(v) THEN [r EXCEPT !.pc = "wait"] ELSE EndItem(v, r)

(* const tx = await arbContract.executeArbitrage(buyR, sellR, token, amountIn, {gasLimit}) *)
Submit(i) ==
    /\ inv[i].pc = "submit"
    /\ last' = Call("submit", i, BuyRouter(variant, inv[i]),
                    SellRouter(variant, inv[i]), amountIn, << >>,
                    GasLimitSent(variant, inv[i]))
    /\ LET r == [inv[i] EXCEPT
                    !.subCall = Args("executeArbitrage", BuyRouter(variant, inv[i]),
                                     SellRouter(variant, inv[i]), amountIn)]
       IN  \/ /\ inv' = [inv EXCEPT ![i] =
                            AfterSubmit(variant, [r EXCEPT !.sub = "ok", !.tx = TxOf(i)])]
              /\ pending' = pending \cup {TxOf(i)}
              /\ nonce' = nonce + 1
           \* rejected: a revert or a transport error ("fail"), or the node finds
           \* the wallet's balance below gas limit times gas price ("nofunds")
           \/ /\ \E why \in {"fail", "nofunds"} :
                    inv' = [inv EXCEPT ![i] = EndItem(variant, [r EXCEPT !.sub = why])]
              /\ UNCHANGED <<pending, nonce>>
    /\ UNCHANGED <<config, signal>>

(* const receipt = await tx.wait(): mined, or thrown on a revert *)
Wait(i) ==
    /\ inv[i].pc = "wait"
    /\ last' = Call("wait", i, "-", "-", 0, << >>, 0)
    /\ pending' = pending \ {inv[i].tx}
    /\ \E confirmed \in BOOLEAN :
         inv' = [inv EXCEPT ![i] =
                   IF confirmed /\ variant = "direct"
                   THEN [inv[i] EXCEPT !.pc = "withdraw"]
                   ELSE EndItem(variant, inv[i])]
    /\ UNCHANGED <<config, nonce, signal>>

(* await arbContract.withdrawProfit(token) *)
Withdraw(i) ==
    /\ inv[i].pc = "withdraw"
    /\ last' = Call("withdraw", i, "-", "-", 0, << >>, 0)
    /\ inv' = [inv EXCEPT ![i] = EndCycle(variant, inv[i])]
    /\ UNCHANGED <<config, pending, nonce, signal>>

(* await sleep(SCAN_MS), then the head of the loop *)
Sleep(i) ==
    /\ inv[i].pc = "sleep"
    /\ inv[i].iter < MaxCycles \/ Stopping(variant, signal)
    /\ last' = NoCall
    /\ inv' = [inv EXCEPT ![i] = LoopHead(variant, signal, inv[i].iter)]
    /\ UNCHANGED <<config, pending, nonce, signal>>

(* setInterval(() => { main(); }, SCAN_INTERVAL_MIN * 60 * 1000) *)
Tick(i) ==
    /\ variant = "timer"
    /\ ~signal
    /\ inv[i].pc = "unused"
    /\ \A j \in Invs : j < i => inv[j].pc \notin {"unused", "init"}
    /\ last' = NoCall
    /\ inv' = [inv EXCEPT ![i] = FreshItem(ItemEntry(variant), 1, 1)]
    /\ UNCHANGED <<config, pending, nonce, signal>>

(* provider.on("block", async (blockNumber) => { ... }): the handler of a    *)
(* new block starts, whatever the handlers of earlier blocks are doing; the  *)
(* handler of the first block is the invocation that ran init().  Spec       *)
(* follows the first handler alone, EventSpec the handlers of later blocks   *)
(* as well.                                                                  *)
OnBlock(i) ==
    /\ variant = "onBlock"
    /\ ~signal
    /\ inv[i].pc = "unused"
    /\ \A j \in Invs : j < i => inv[j].pc \notin {"unused", "init"}
    /\ last' = NoCall
    /\ inv' = [inv EXCEPT ![i] = FreshItem(ItemEntry(variant), 1, 1)]
    /\ UNCHANGED <<config, pending, nonce, signal>>

(* tx was sent before ty: the wallet gave it the lower nonce *)
SentBefore(tx, ty) == tx[2] < ty[2]

(* The ledger mines a transaction that no invocation is waiting for; the    *)
(* transactions of one wallet are mined in nonce order                      *)
Mined(tx) ==
    /\ tx \in pending
    /\ \A i \in Invs : ~(inv[i].pc = "wait" /\ inv[i].tx = tx)
    /\ \A ty \in pending : ~SentBefore(ty, tx)
    /\ pending' = pending \ {tx}
    /\ UNCHANGED <<config, inv, nonce, last, signal>>

(* A step of the scan code is still to come for this invocation *)
Live(r) == r.pc \notin {"unused", "done", "exit", "stopped", "killed"}

(* SIGINT: the handler sets the stop flag and returns; a script without a    *)
(* handler is ended by the interrupt wherever its invocations stand          *)
Sigint ==
    /\ ~signal
    /\ \E i \in Invs : Live(inv[i])
    /\ signal' = TRUE
    /\ last' = Call("sigint", 0, "-", "-", 0, << >>, 0)
    /\ inv' = IF HasStopFlag(variant) THEN inv
              ELSE [i \in Invs |->
                      IF Live(inv[i]) THEN [inv[i] EXCEPT !.pc = "killed"] ELSE inv[i]]
    /\ UNCHANGED <<config, pending, nonce>>

Next ==
    \/ \E i \in Invs :
         \/ InitDecimals(i)
         \/ GetBlockNumber(i)
         \/ GetTokenDecimals(i)
         \/ GetPair(i)
         \/ BuyQuote(i)
         \/ SellQuote(i)
         \/ Simulate(i)
         \/ EstimateGas(i)
         \/ Submit(i)
         \/ Wait(i)
         \/ Withdraw(i)
         \/ Sleep(i)
         \/ Tick(i)
    \/ \E tx \in pending : Mined(tx)

Spec == Init /\ [][Next]_vars

-----------------------------------------------------------------------------
(* The conversions alone: every short string, at every small precision *)

UnitChars == {"0", "1", ".", "-"}

RECURSIVE StringsOfLength(_)
StringsOfLength(n) ==
    IF n = 0 THEN {<< >>}
    ELSE {s \o <<c>> : s \in StringsOfLength(n - 1), c \in UnitChars}

UnitStrings == UNION {StringsOfLength(n) : n \in 0..MaxLen}

UnitsInit ==
    /\ variant \in StartupVariants
    /\ \E s \in UnitStrings, d \in 0..MaxDecimals :
         \/ cfg = [amount |-> s, minProfit |-> <<"1">>, decimals |-> d]
         \/ cfg = [amount |-> <<"1">>, minProfit |-> s, decimals |-> d]
    /\ Loaded

UnitsNext == \E i \in Invs : InitDecimals(i)

UnitsSpec == UnitsInit /\ [][UnitsNext]_vars

-----------------------------------------------------------------------------
(* The scan loops under an interrupt.  The three loops with a stop flag, and *)
(* the main script, which installs no SIGINT handler.  Every remote call     *)
(* returns or throws: the steps of the scripts are weakly fair; the          *)
(* interrupt may never come.                                                 *)

StopVariants == {"stop", "stop3", "p005", "main"}

StopInit ==
    /\ variant \in StopVariants
    /\ cfg \in [amount : ScanAmounts, minProfit : ScanThresholds(variant),
                decimals : {ScanDecimals}]
    /\ Loaded

StopSteps ==
    \E i \in Invs :
      \/ InitDecimals(i)
      \/ GetBlockNumber(i)
      \/ GetTokenDecimals(i)
      \/ BuyQuote(i)
      \/ SellQuote(i)
      \/ Simulate(i)
      \/ EstimateGas(i)
      \/ Submit(i)
      \/ Wait(i)
      \/ Sleep(i)

StopNext ==
    \/ StopSteps
    \/ Sigint
    \/ \E tx \in pending : Mined(tx)

StopSpec == StopInit /\ [][StopNext]_vars /\ WF_vars(StopSteps)

-----------------------------------------------------------------------------
(* The while (true) loops with a block read at the head of the cycle, with   *)
(* no interrupt.  Every remote call returns or throws: the steps are weakly  *)
(* fair.                                                                     *)

LoopVariants == {"main", "single"}

LoopInit ==
    /\ variant \in LoopVariants
    /\ cfg \in [amount : ScanAmounts, minProfit : ScanThresholds(variant),
                decimals : {ScanDecimals}]
    /\ Loaded

LoopNext ==
    \E i \in Invs :
      \/ InitDecimals(i)
      \/ GetBlockNumber(i)
      \/ BuyQuote(i)
      \/ SellQuote(i)
      \/ Simulate(i)
      \/ EstimateGas(i)
      \/ Submit(i)
      \/ Wait(i)
      \/ Sleep(i)

LoopSpec == LoopInit /\ [][LoopNext]_vars /\ WF_vars(LoopNext)

-----------------------------------------------------------------------------
(* The scripts whose cycles are started by events: the interval timer of     *)
(* part_000 (second script) and the block event of the block scanner.  An    *)
(* event starts a new invocation whatever the earlier ones are doing.        *)

EventVariants == {"timer", "onBlock"}

EventInit ==
    /\ variant \in EventVariants
    /\ IF HasHardCodedConfig(variant)
       THEN cfg = HardCoded
       ELSE cfg \in [amount : ScanAmounts, minProfit : ScanThresholds(variant),
                     decimals : {ScanDecimals}]
    /\ Loaded

EventNext ==
    \E i \in Invs :
      \/ InitDecimals(i)
      \/ BuyQuote(i)
      \/ SellQuote(i)
      \/ Simulate(i)
      \/ Submit(i)
      \/ Wait(i)
      \/ Tick(i)
      \/ OnBlock(i)

EventSpec == EventInit /\ [][EventNext]_vars

-----------------------------------------------------------------------------
(* Properties *)

(* The threshold test of invocation i has been taken for the current item *)
Decided(i) == inv[i].hasProfit /\ inv[i].pc # "sim"

(* Invocation i has entered the execution path for the current item *)
Proceeded(i) ==
    \/ inv[i].pc \in {"est", "submit", "wait", "withdraw"}
    \/ inv[i].est # "none"
    \/ inv[i].sub # "none"

(* C1: in every reachable state at most one settlement transaction is in     *)
(* flight (submitted and not yet confirmed or failed).                       *)
C1_AtMostOneInFlight == Cardinality(pending) <= 1

(* C2: an execution attempt that runs while another attempt's transaction is *)
(* in flight performs no gas estimate and no submission call: no step taken  *)
(* while a transaction is pending is an estimate or a submission.            *)
C2_BusyWhileInFlight ==
    [][(pending # {} /\ inv' # inv) => last'.op \notin {"estimate", "submit"}]_vars

C4_FailedSimulationBlocks ==
    \A i \in Invs : inv[i].sim = "fail" => ~Proceeded(i)

(* C5: a gas estimate or a submission is made for a direction only if that   *)
(* direction's profit was computed and is at least the threshold.            *)
C5_ExecuteOnlyAtThreshold ==
    \A i \in Invs :
        (inv[i].est # "none" \/ inv[i].sub # "none")
        => inv[i].hasProfit /\ inv[i].profit >= minProfit

C7_EqualProfitExecutes ==
    \A i \in Invs :
        (variant \in {"main", "env", "single"} /\ Decided(i)
           /\ inv[i].profit = minProfit)
        => Proceeded(i)

(* C7 amended: the comparison is >= in the main script, where a profit equal *)
(* to the threshold proceeds to the gas estimate, and strictly > in the      *)
(* env-configured and single-direction scripts, where a profit equal to the  *)
(* threshold does not execute and every strictly larger one does.            *)
C7_ThresholdComparison ==
    \A i \in Invs :
        Decided(i) =>
            /\ variant = "main" =>
                 (Proceeded(i) <=> inv[i].profit >= minProfit)
            /\ variant \in {"env", "single"} =>
                 (Proceeded(i) <=> inv[i].profit > minProfit)

(* C7 witness: the main script proceeds on a profit equal to the threshold *)
C7_Witness ==
    /\ variant = "main"
    /\ Decided(1)
    /\ inv[1].profit = minProfit
    /\ inv[1].est = "ok"

(* C8: the profit used for the threshold decision equals amountOut minus     *)
(* amountIn exactly, as an integer, with no floating-point rounding.         *)
C8_ProfitIsExactInteger ==
    \A i \in Invs :
        (variant \in {"main", "stop", "p005"} /\ inv[i].hasProfit)
        => inv[i].profit = inv[i].sellOut - amountIn /\ inv[i].rnd = 0

(* C9: the sell-leg quote is issued on the sell venue, with the buy-leg      *)
(* quote's output as its input and the path asset -> quote asset.            *)
C9_SellLegReversesBuyLeg ==
    [][\A i \in Invs :
         (variant \in {"main", "stop3", "p005"}
            /\ inv[i].pc = "sell" /\ inv'[i] # inv[i])
         => /\ last'.op = "sellQuote"
            /\ last'.venue = SellRouter(variant, inv[i])
            /\ last'.amt = inv[i].buyOut
            /\ last'.path = pathSell]_vars

(* C10: if the buy-venue quote fails, the direction is skipped: no sell      *)
(* quote call, no simulation and no submission is made for it.               *)
C10_BuyFailureSkips ==
    \A i \in Invs :
        (variant \in {"main", "stop"} /\ inv[i].buy = "fail")
        => /\ inv[i].pc # "sell"
           /\ inv[i].sell = "none"
           /\ inv[i].sim = "none"
           /\ ~Proceeded(i)

(* A call to a venue or to the settlement contract *)
ScanOps == {"getPair", "buyQuote", "sellQuote", "simulate", "estimate",
            "submit", "wait", "withdraw"}

(* C11: if either quoted amount is exactly zero the direction is skipped: no *)
(* profit is computed and no sell quote, simulation or submission follows.   *)
C11_ZeroQuoteSkips ==
    \A i \in Invs :
        (variant \in {"main", "p007"}
           /\ \/ inv[i].buy = "ok" /\ inv[i].buyOut = 0
              \/ inv[i].sell = "ok" /\ inv[i].sellOut = 0)
        => /\ ~inv[i].hasProfit
           /\ inv[i].pc \notin {"sell", "sim"}
           /\ inv[i].sim = "none"
           /\ ~Proceeded(i)

(* C12: the quote operation never lets an error reach its caller, and a zero *)
(* final element is a failure: no quote call's error is taken by a handler   *)
(* outside the quote operation, and no quote succeeds with amount zero.      *)
C12_QuoteNeverThrows ==
    variant \in {"main", "env", "p007"} =>
        /\ last.op \in {"buyQuote", "sellQuote"} => last.caught \in {"none", "quote"}
        /\ \A i \in Invs :
             /\ inv[i].buy = "ok" => inv[i].buyOut # 0
             /\ inv[i].sell = "ok" => inv[i].sellOut # 0

(* C13: if the configured amountIn is zero, no venue quote call is made. *)
C13_ZeroAmountInSkips ==
    (variant \in {"main", "p007"} /\ amountIn = 0)
    => last.op \notin {"buyQuote", "sellQuote"}

(* The startup has run and its decimals lookup has answered *)
StartupRan ==
    /\ inv[1].pc # "init"
    /\ ~(last.op = "decimals" /\ last.caught = "fatal")

(* The string denotes a positive number smaller than one base unit *)
BelowOneUnit(s, decimals) ==
    /\ ~InvalidString(s)
    /\ ~Negative(s)
    /\ LET scale == IF Len(MatchDecimal(s)) > decimals
                    THEN Len(MatchDecimal(s)) ELSE decimals
       IN  /\ ValueAtScale(s, scale) > 0
           /\ ValueAtScale(s, scale) < Pow10(scale - decimals)

(* C14: a configured minimum-profit string that is positive but smaller than *)
(* one base unit yields a threshold of exactly one base unit, never zero.    *)
C14_ThresholdClampedToOneUnit ==
    (variant \in {"main", "env"}
       /\ StartupRan
       /\ ~ParseThrows(cfg.amount, cfg.decimals)
       /\ BelowOneUnit(cfg.minProfit, cfg.decimals))
    => inv[1].pc # "exit" /\ minProfit = 1

(* The value of a decimal string in base units, truncated toward zero *)
TruncatedUnits(s, decimals) ==
    LET scale == IF Len(MatchDecimal(s)) > decimals
                 THEN Len(MatchDecimal(s)) ELSE decimals
        abs == DigitsValue(MatchWhole(s) \o MatchDecimal(s)
                           \o Zeros(scale - Len(MatchDecimal(s))))
    IN  (IF Negative(s) THEN -1 ELSE 1) * (abs \div Pow10(scale - decimals))

(* C15: for every decimal string with more fractional digits than the        *)
(* precision, the conversion to base units does not throw and drops the      *)
(* excess digits (truncates toward zero).                                    *)
C15_ExcessDigitsTruncated ==
    (variant = "main"
       /\ StartupRan
       /\ cfg.minProfit = <<"1">>
       /\ ~InvalidString(cfg.amount)
       /\ Len(MatchDecimal(cfg.amount)) > cfg.decimals)
    => /\ inv[1].pc # "exit"
       /\ amountIn = TruncatedUnits(cfg.amount, cfg.decimals)

(* C16: for every decimal string s with at most p fractional digits,         *)
(* formatUnits(parseUnits(s, p), p) is numerically equal to s: the startup   *)
(* converts the amount without an error and logs a string equal to it.       *)
C16_RoundTrip ==
    (variant = "main"
       /\ StartupRan
       /\ cfg.minProfit = <<"1">>
       /\ ~InvalidString(cfg.amount)
       /\ Len(MatchDecimal(cfg.amount)) <= cfg.decimals)
    => /\ inv[1].pc # "exit"
       /\ amountIn = ValueAtScale(cfg.amount, cfg.decimals)
       /\ NumericallyEqual(shown, cfg.amount)

(* C16 witness: "1.1" at precision 2 is 110 base units and is logged as 1.1 *)
C16_Witness ==
    /\ variant = "main"
    /\ cfg.amount = <<"1", ".", "1">>
    /\ cfg.decimals = 2
    /\ inv[1].pc = "block"
    /\ amountIn = 110
    /\ shown = <<"1", ".", "1">>

(* C17: no error raised inside a scan cycle terminates the scan loop: the    *)
(* process exits only before its first cycle.                                *)
C17_LoopSurvivesErrors ==
    variant \in {"main", "env", "p007"} =>
        \A i \in Invs : inv[i].pc = "exit" => inv[i].iter = 0

(* The configuration has a string that is not a decimal number *)
Unparseable(c) ==
    \/ InvalidString(c.amount)
    \/ c.minProfit # << >> /\ InvalidString(c.minProfit)

C19_BothDirectionsEachCycle ==
    [][\A i \in Invs :
         (variant \in {"main", "single"}
            /\ inv[i].pc \notin {"init", "block", "sleep"}
            /\ inv'[i].pc = "sleep")
         => inv[i].k = 2 /\ BuyRouter(variant, inv[i]) = "B"]_vars

(* C20: every settlement submission is preceded, in the same attempt, by a   *)
(* gas estimate, and the gas limit submitted is the estimate increased by    *)
(* the fixed margin (120/100 or 110/100, floored), never below the estimate. *)
C20_GasLimitFromEstimate ==
    \A i \in Invs :
        (variant \in {"main", "single", "stop"} /\ inv[i].sub # "none")
        => /\ inv[i].est = "ok"
           /\ inv[i].gasLimit >= inv[i].gasEst
           /\ inv[i].gasLimit \in {(inv[i].gasEst * MarginMain) \div Percent,
                                   (inv[i].gasEst * MarginSingle) \div Percent}

(* C21: before a submission the wallet's native balance is checked against   *)
(* the cost of the budgeted gas, so no submission call is ever made that the *)
(* ledger rejects for insufficient funds.                                    *)
C21_BalanceCheckedBeforeSubmit ==
    variant = "main" => \A i \in Invs : inv[i].sub # "nofunds"

(* Invocation i has a settlement transaction submitted and not yet resolved *)
InFlight(i) == \E tx \in pending : tx[1] = i

(* C22: after a submission has succeeded the attempt waits for its           *)
(* confirmation or failure: the only step an invocation takes while its      *)
(* transaction is unresolved is the confirmation wait, so no quote,          *)
(* simulation or submission call is started in between.                      *)
C22_WaitsBeforeNextCall ==
    [][\A i \in Invs :
         (variant \in {"main", "multi", "direct"}
            /\ InFlight(i)
            /\ inv'[i] # inv[i])
         => inv[i].pc = "wait" /\ last'.op = "wait"]_vars

(* C23: the simulation call uses exactly the same method and arguments (buy  *)
(* venue, sell venue, asset, amountIn) as the submission that follows it in  *)
(* the same direction evaluation.                                            *)
C23_SimulationSameCall ==
    \A i \in Invs :
        (variant \in {"main", "p008"}
           /\ inv[i].sim # "none" /\ inv[i].sub # "none")
        => inv[i].simCall = inv[i].subCall

(* The arguments of a call to the settlement contract, without the method *)
ArgsOf(call) == SubSeq(call, 2, Len(call))

(* C23 as the code has it: the simulation passes exactly the arguments of    *)
(* the submission that follows it; its method is the submission's method,    *)
(* called statically, in the main script and the view function simulateArb   *)
(* in part_008.                                                              *)
C23_SimulationSameArguments ==
    \A i \in Invs :
        (variant \in {"main", "p008"}
           /\ inv[i].sim # "none" /\ inv[i].sub # "none")
        => /\ ArgsOf(inv[i].simCall) = ArgsOf(inv[i].subCall)
           /\ inv[i].subCall[1] = "executeArbitrage"
           /\ inv[i].simCall[1] =
                (IF variant = "main" THEN "executeArbitrage" ELSE "simulateArb")

(* C23 witness: part_008 has simulated with simulateArb and then submitted *)
C23_Witness ==
    /\ variant = "p008"
    /\ inv[1].sim = "ok"
    /\ inv[1].sub = "ok"
    /\ inv[1].simCall = Args("simulateArb", "A", "B", amountIn)
    /\ inv[1].subCall = Args("executeArbitrage", "A", "B", amountIn)

(* C24: the stop flag is read only at the head of the loop.  In the loops    *)
(* of part_000 (first loop) and part_005, once the flag is set, a step of    *)
(* the loop stays in the cycle it is in; the line after the loop is reached  *)
(* only from the sleep that ends a cycle (or from the startup before the     *)
(* first cycle), and that sleep is followed by nothing else; while an        *)
(* evaluation of the cycle remains, the next step belongs to the current     *)
(* evaluation or starts the next one.                                        *)
C24_StopCheckedBetweenCycles ==
    [][\A i \in Invs :
         (variant \in {"stop", "p005"} /\ signal /\ inv'[i] # inv[i])
         => /\ inv'[i].iter = inv[i].iter
            /\ inv[i].pc \in {"sleep", "init"} <=> inv'[i].pc = "stopped"
            /\ (inv[i].pc \notin {"sleep", "init"} /\ inv[i].k < Len(Items(variant)))
               => /\ inv'[i].k \in {inv[i].k, inv[i].k + 1}
                  /\ inv'[i].pc \notin {"sleep", "stopped", "killed", "exit"}]_vars

(* The flag is set in the first cycle of the two-direction loop, and the     *)
(* second direction is being evaluated: its buy quote has returned           *)
C24_Witness ==
    /\ variant = "stop"
    /\ signal
    /\ inv[1].iter = 1
    /\ inv[1].k = 2
    /\ inv[1].buy = "ok"
    /\ inv[1].pc = "sell"

(* C25: in a script whose SIGINT handler sets a stop flag, once the flag is  *)
(* set the loop eventually reaches the line after the loop, its terminal log *)
(* line, given that every remote call returns or throws.                     *)
C25_InterruptLeadsToTerminalLine ==
    (signal /\ HasStopFlag(variant)) ~> (inv[1].pc = "stopped")

(* C26: in the loops of part_000 (first loop) and part_005, a stop signal    *)
(* does not cancel a confirmation wait.  While an invocation awaits          *)
(* tx.wait(), with the flag set by this step or before it, either the        *)
(* invocation stays as it is with its transaction still awaited, or the step *)
(* is the return of tx.wait(); and the line after the loop is never reached  *)
(* with a transaction of the invocation still awaited.                       *)
C26_StopDoesNotCancelWait ==
    [][\A i \in Invs :
         variant \in {"stop", "p005"}
         => /\ (inv[i].pc = "wait" /\ signal')
               => \/ inv'[i] = inv[i] /\ inv[i].tx \in pending'
                  \/ last'.op = "wait" /\ last'.by = i /\ inv[i].tx \notin pending'
            /\ inv'[i].pc = "stopped" => \A tx \in pending' : tx[1] # i]_vars

(* The interrupt arrives while the transaction is awaited *)
C26_Witness ==
    /\ variant = "p005"
    /\ last.op = "sigint"
    /\ signal
    /\ inv[1].pc = "wait"
    /\ inv[1].tx \in pending

(* C27: at most one of the two directions of a cycle submits.  In the first  *)
(* cycle of the main script, when the second direction has simulated         *)
(* successfully and has submitted, its transaction is the only one the       *)
(* wallet has sent.                                                          *)
C27_OneSubmissionPerCycle ==
    (/\ variant = "main"
     /\ inv[1].iter = 1
     /\ inv[1].k = 2
     /\ inv[1].sim = "ok"
     /\ inv[1].sub = "ok")
    => nonce <= 1

(* C28: a rejected simulation blocks the execution of its own opportunity    *)
(* and of nothing else.  In the main script, the step on which the           *)
(* simulation call throws ends the evaluation of that direction: the next    *)
(* await is the buy quote of the other direction of the cycle, or the sleep  *)
(* before the next cycle.                                                    *)
C28_RejectionBlocksOnlyItsOpportunity ==
    [][\A i \in Invs :
         (/\ variant = "main"
          /\ inv[i].pc = "sim"
          /\ last'.op = "simulate" /\ last'.by = i /\ last'.caught = "caller")
         => IF inv[i].k < Len(Items(variant))
            THEN inv'[i].pc = "buy" /\ inv'[i].k = inv[i].k + 1
            ELSE inv'[i].pc = "sleep"]_vars

(* The place of an await in the body of the loop: the block read, the steps  *)
(* of a direction evaluation up to the decision and the execution, the sleep *)
PhaseRank(pc) ==
    CASE pc = "block" -> 1
      [] pc = "buy" -> 2
      [] pc = "sell" -> 3
      [] pc = "sim" -> 4
      [] pc = "est" -> 5
      [] pc = "submit" -> 6
      [] pc = "wait" -> 7
      [] pc = "sleep" -> 8
      [] OTHER -> 0

(* C29: with no stop signal and every remote call returning or throwing, the *)
(* scan loop of the main script and of part_010 (runLoop) goes on: every     *)
(* cycle within the explored bound is followed by the block read of the next *)
(* one.  Within a cycle the phases come in order: the block read, then the   *)
(* evaluations one direction after the other, each running forward through   *)
(* its quotes, its decision and its execution, then the sleep after the last *)
(* direction (or straight after a block read that throws), then the block    *)
(* read of the next cycle.                                                   *)
C29_LoopRepeatsInOrder ==
    /\ \A n \in 1..(MaxCycles - 1) :
         (variant \in LoopVariants /\ inv[1].iter = n)
         ~> (inv[1].iter = n + 1 /\ inv[1].pc = "block")
    /\ [][(variant \in LoopVariants /\ inv[1].iter >= 1 /\ inv'[1] # inv[1])
          => CASE inv[1].pc = "block" ->
                    /\ inv'[1].iter = inv[1].iter
                    /\ \/ inv'[1].pc = "buy" /\ inv'[1].k = 1
                       \/ inv'[1].pc = "sleep"
               [] inv[1].pc = "sleep" ->
                    /\ inv'[1].iter = inv[1].iter + 1
                    /\ inv'[1].pc = "block"
               [] OTHER ->
                    /\ inv'[1].iter = inv[1].iter
                    /\ \/ /\ inv'[1].k = inv[1].k
                          /\ PhaseRank(inv'[1].pc) > PhaseRank(inv[1].pc)
                          /\ inv'[1].pc = "sleep" => inv[1].k = Len(Items(variant))
                       \/ /\ inv'[1].k = inv[1].k + 1
                          /\ inv'[1].pc = "buy"]_vars

(* The main script at the block read of its second cycle *)
C29_Witness ==
    /\ variant = "main"
    /\ ~signal
    /\ inv[1].iter = 2
    /\ inv[1].pc = "block"

(* C30: every submission comes after a successful buy quote, a successful    *)
(* sell quote, a simulation call and a gas estimate of the same direction    *)
(* evaluation, and a submission that was accepted is awaited.  In the main   *)
(* script and in the script of part_006, an evaluation that has called the   *)
(* submission holds both quotes, the simulation's answer and the estimate,   *)
(* and its accepted transaction has been awaited or is being awaited.        *)
C30_SubmissionAfterAllChecks ==
    \A i \in Invs :
      (variant \in {"main", "direct"} /\ inv[i].sub # "none")
      => /\ inv[i].buy = "ok"
         /\ inv[i].sell = "ok"
         /\ inv[i].sim # "none"
         /\ inv[i].est = "ok"
         /\ inv[i].sub = "ok" =>
              \/ inv[i].pc = "wait" /\ inv[i].tx \in pending
              \/ inv[i].tx \notin pending

(* initDecimals() has returned: the startup log line has been printed *)
Initialized == shown # << >>

(* C31: the trade amount, the profit threshold and the asset precision are   *)
(* fixed once at startup.  In the main script and in part_008, once          *)
(* initDecimals() has returned, no step changes amountIn, minProfit or the   *)
(* configuration with its precision, and no step is a second decimals lookup *)
(* or a second parseUnits of the startup.                                    *)
C31_ConfigFixedAfterStartup ==
    [][(variant \in {"main", "p008"} /\ Initialized)
       => /\ amountIn' = amountIn
          /\ minProfit' = minProfit
          /\ cfg' = cfg
          /\ last'.op \notin {"decimals", "parseUnits"}]_vars

(* The main script in its second cycle, after an execution, with the values  *)
(* the startup computed from "0.1" and "0.1" at one fractional digit         *)
C31_Witness ==
    /\ variant = "main"
    /\ Initialized
    /\ inv[1].iter = 2
    /\ inv[1].sub = "ok"
    /\ nonce >= 2
    /\ cfg.amount = Tenths(1) /\ amountIn = 1
    /\ cfg.minProfit = Tenths(1) /\ minProfit = 1

(* C32: scan cycles never overlap.  In the timer-driven script and in the    *)
(* block-driven scanner, at most one invocation of the scan code has an      *)
(* await pending at any time.                                                *)
C32_CyclesNeverOverlap ==
    variant \in {"timer", "onBlock"}
    => Cardinality({i \in Invs : Live(inv[i])}) <= 1

(* The string is a decimal number greater than zero *)
PositiveDecimal(s) ==
    /\ ~InvalidString(s)
    /\ ~Negative(s)
    /\ ValueAtScale(s, Len(MatchDecimal(s))) > 0

(* C33: with a minimum-profit string that is a positive decimal, an          *)
(* opportunity whose profit in base units is zero or negative never reaches  *)
(* the gas estimate or the submission (main script and part_008).            *)
C33_NoExecutionWithoutProfit ==
    \A i \in Invs :
      (/\ variant \in {"main", "p008"}
       /\ PositiveDecimal(cfg.minProfit)
       /\ inv[i].hasProfit
       /\ inv[i].profit <= 0)
      => /\ inv[i].pc \notin {"est", "submit", "wait"}
         /\ inv[i].est = "none"
         /\ inv[i].sub = "none"

(* C34: each direction evaluation makes at most one submission call, and a   *)
(* failed gas estimate, submission or confirmation is not retried in the     *)
(* same cycle.  In the main script and in the script of part_006: a          *)
(* submission call is made only by an evaluation that has made none; from    *)
(* the gas estimate, the submission or the wait, a step either moves forward *)
(* in the same evaluation, or leaves it for the first await of the next      *)
(* direction with fresh locals, or for the sleep that ends the cycle; and    *)
(* the cycle number changes only on the return of the sleep.                 *)
C34_NoRetryWithinCycle ==
    [][\A i \in Invs :
         variant \in {"main", "direct"}
         => /\ (last'.op = "submit" /\ last'.by = i)
               => inv[i].pc = "submit" /\ inv[i].sub = "none"
            /\ (inv[i].pc \in {"est", "submit", "wait"} /\ inv'[i] # inv[i])
               => \/ /\ inv'[i].iter = inv[i].iter
                     /\ inv'[i].k = inv[i].k
                     /\ \/ inv[i].pc = "est" /\ inv'[i].pc = "submit"
                        \/ inv[i].pc = "submit" /\ inv'[i].pc = "wait"
                        \/ inv[i].pc = "wait" /\ inv'[i].pc = "withdraw"
                        \/ inv'[i].pc = "sleep"
                  \/ inv'[i] = FreshItem(ItemEntry(variant), inv[i].iter, inv[i].k + 1)
            /\ inv'[i].iter # inv[i].iter => inv[i].pc \in {"sleep", "init"}]_vars

(* The main script at the sleep that ends a cycle whose last direction's     *)
(* submission was rejected: no transaction was sent                          *)
C34_Witness ==
    /\ variant = "main"
    /\ inv[1].k = 2
    /\ inv[1].est = "ok"
    /\ inv[1].sub = "fail"
    /\ inv[1].pc = "sleep"
    /\ pending = {}

C36_BuyAndSellVenuesDiffer ==
    (variant \in {"p003", "p004", "multi", "stop"} /\ last.op = "submit")
    => last.venue # last.sellVenue

=============================================================================
